---- MODULE Spec2Model ----
(***************************************************************************)
(* State-machine model of generic/tclAbstractList.c: the AbstractList     *)
(* Tcl_Obj type (a list represented by a table of subtype functions, an   *)
(* optional cache of materialised elements and a subtype payload).        *)
(***************************************************************************)
EXTENDS Integers, Sequences, FiniteSets, TLC

\* ------------------------------------------------------------------ bounds

\* Tcl_Obj handles (abstract lists and other values) created in one run.
MaxObjs == 2
\* Largest requiredSize passed to Tcl_NewAbstractListObj, in payload words.
MaxPayload == 2
\* Largest value of the payload's first word (the length the subtype reports).
MaxLen == 2
\* Largest value of the payload's other words (the series' start).
MaxStart == 1
\* Operation slots registered over all headers by Tcl_AbstractListSetProc.
MaxProcsSet == 2
\* INT_MAX of the build's int, scaled down: an int holds -IntMax-1 .. IntMax.
IntMax == 7
\* Largest length (a Tcl_WideInt) a subtype reports in WideLengthSpec.
WideMax == 24

\* ------------------------------------------------------- program constants

NULL == 0
\* &tclAbstractListType, the value of Tcl_Obj.typePtr of an abstract list.
tclAbstractListType == "abstractlist"
TCL_ABSTRACTLIST_VERSION_1 == "TCL_ABSTRACTLIST_VERSION_1"
NullProc == "NULL"

\* The members of struct AbstractList written by Tcl_NewAbstractListObj; the
\* payload (abstractValue) follows them in the same block.
HeaderFields ==
    {"version", "repSize", "typeName", "elements", "newObjProc", "dupRepProc",
     "lengthProc", "indexProc", "sliceProc", "reverseProc"}
\* sizeof(AbstractList), in words.
HeaderSize == Cardinality(HeaderFields)

\* A switch whose TCL_ABSL_LENGTH and TCL_ABSL_INDEX cases assign each
\* other's member.
SlotOfLengthIndexSwapped ==
    [TCL_ABSL_NEW |-> "newObjProc", TCL_ABSL_DUPREP |-> "dupRepProc",
     TCL_ABSL_LENGTH |-> "indexProc", TCL_ABSL_INDEX |-> "lengthProc",
     TCL_ABSL_SLICE |-> "sliceProc", TCL_ABSL_REVERSE |-> "reverseProc"]

\* Tcl_AbstractListProcType -> the member Tcl_AbstractListSetProc assigns.
SlotOf ==
    [TCL_ABSL_NEW |-> "newObjProc", TCL_ABSL_DUPREP |-> "dupRepProc",
     TCL_ABSL_LENGTH |-> "lengthProc", TCL_ABSL_INDEX |-> "indexProc",
     TCL_ABSL_SLICE |-> "sliceProc", TCL_ABSL_REVERSE |-> "reverseProc"]
ProcTypes == DOMAIN SlotOf \cup {"TCL_ABSL_UNKNOWN"}

\* ---------------------------------------------------------------- subtype
\* The concrete subtype behind the operation table: an arithmetic series
\* whose payload words are <<len, start>> (missing words read as 0) and
\* whose step is 2.

TypeNames == {"arithseries"}

\* The values of payload word k: the length, the start, unused words.
PayloadWord(k) == IF k = 1 THEN 0..MaxLen ELSE IF k = 2 THEN 0..MaxStart ELSE {0}
Payloads(size) ==
    {p \in [1..size -> 0..(IF MaxLen > MaxStart THEN MaxLen ELSE MaxStart)] :
        \A k \in 1..size : p[k] \in PayloadWord(k)}

ArithSeriesLength(payload) == IF Len(payload) >= 1 THEN payload[1] ELSE 0
ArithSeriesIndex(payload, i) ==
    (IF Len(payload) >= 2 THEN payload[2] ELSE 0) + 2 * i
ArithSeriesDupRep(srcPayload) == srcPayload

\* The function a type of slot is registered with.
ProcFor ==
    [TCL_ABSL_NEW |-> "ArithSeriesNew", TCL_ABSL_DUPREP |-> "ArithSeriesDupRep",
     TCL_ABSL_LENGTH |-> "ArithSeriesLength", TCL_ABSL_INDEX |-> "ArithSeriesIndex",
     TCL_ABSL_SLICE |-> "ArithSeriesRange", TCL_ABSL_REVERSE |-> "ArithSeriesReverse",
     TCL_ABSL_UNKNOWN |-> "ArithSeriesLength"]

\* ------------------------------------------------------------------ state

VARIABLES
    objs,     \* Tcl_Obj handles: live, typePtr, internalRep ptr1/ptr2, refCount, bytes
    reps,     \* AbstractList blocks: header members, payload, allocation state
    arrays,   \* Tcl_Obj* arrays obtained for element caches
    elems,    \* element Tcl_Objs produced by indexProc and kept in a cache
    last,     \* the call made last, its outcome and what it left in interp
    halted    \* the process has ended (Tcl_Panic or a crash)

vars == <<objs, reps, arrays, elems, last, halted>>

\* ckalloc either obtains the block (TRUE) or returns NULL (FALSE).
ckalloc == BOOLEAN

\* TclNewObj: refCount 0, the empty string rep (bytes "", length 0), no type.
\* bytes = "NULL" stands for the NULL pointer of an invalidated string rep.
TclNewObj ==
    [live |-> TRUE, typePtr |-> "none", ptr1 |-> NULL, ptr2 |-> NULL,
     refCount |-> 0, bytes |-> "", length |-> 0]

LiveObjs == {o \in 1..Len(objs) : objs[o].live}

TclHasInternalRep(o, type) == objs[o].typePtr = type

\* AbstractListGetInternalRep: ptr1 of an abstract list, NULL for any other value.
AbstractListGetInternalRep(o) ==
    IF TclHasInternalRep(o, tclAbstractListType) THEN objs[o].ptr1 ELSE NULL

\* op: the entry point; obj: its Tcl_Obj argument; arg: its integer argument;
\* The caller's count and array variables before Tcl_AbstractListObjGetElements
\* is called: not yet assigned.
out == [objc |-> -1, objv |-> NULL]

\* alloc: what its ckalloc did ("none" when it made none); status: how it
\* ended; ret: the handle or value returned; calls: how often it invoked
\* indexProc; errorCode: the error code it set in interp ("" when it set none);
\* out: the caller's *objcPtr and *objvPtr after the call; steps: the
\* statements of a duplication in the order they ran.
Call(op, obj, arg, alloc, status, ret, calls, errorCode) ==
    [op |-> op, obj |-> obj, arg |-> arg, alloc |-> alloc,
     status |-> status, ret |-> ret, calls |-> calls, errorCode |-> errorCode,
     out |-> out, steps |-> << >>]

Init ==
    /\ objs = << >>
    /\ reps = << >>
    /\ arrays = << >>
    /\ elems = << >>
    /\ last = Call("Init", NULL, 0, "none", "TCL_OK", NULL, 0, "")
    /\ halted = FALSE

\* ------------------------------------------------- Tcl_NewAbstractListObj

\* A header that records the payload's size alone as its repSize.
NewRepWithoutHeaderSize(typeName, requiredSize, payload) ==
    [alloc |-> TRUE, version |-> TCL_ABSTRACTLIST_VERSION_1, repSize |-> requiredSize,
     typeName |-> typeName, elements |-> NULL, newObjProc |-> NullProc,
     dupRepProc |-> NullProc, lengthProc |-> NullProc, indexProc |-> NullProc,
     sliceProc |-> NullProc, reverseProc |-> NullProc, payload |-> payload]

\* The block as lines 95-106 leave it: repSize is sizeof(AbstractList) plus
\* requiredSize, the cache and the six operation slots are NULL.
NewAbstractListRep(typeName, requiredSize, payload) ==
    [alloc |-> TRUE, version |-> TCL_ABSTRACTLIST_VERSION_1,
     repSize |-> HeaderSize + requiredSize,
     typeName |-> typeName, elements |-> NULL, newObjProc |-> NullProc,
     dupRepProc |-> NullProc, lengthProc |-> NullProc, indexProc |-> NullProc,
     sliceProc |-> NullProc, reverseProc |-> NullProc, payload |-> payload]

\* Tcl_StoreInternalRep followed by Tcl_InvalidateStringRep on a new object.
StoreAbstractListRep(obj, r) ==
    [obj EXCEPT !.typePtr = tclAbstractListType, !.ptr1 = r, !.ptr2 = r,
                !.bytes = "NULL"]

\* The payload is whatever the block held and the subtype's constructor then
\* wrote into it: any content of requiredSize words.
Tcl_NewAbstractListObj(typeName, requiredSize, payload, allocOk) ==
    /\ ~halted
    /\ Len(objs) < MaxObjs
    /\ LET o == Len(objs) + 1
           r == Len(reps) + 1
       IN IF allocOk
          THEN /\ reps' = Append(reps, NewAbstractListRep(typeName, requiredSize, payload))
               /\ objs' = Append(objs, StoreAbstractListRep(TclNewObj, r))
               /\ last' = Call("New", NULL, requiredSize, "ok", "TCL_OK", o, 0, "")
               /\ UNCHANGED halted
          ELSE \* line 97 writes through the NULL block
               /\ objs' = Append(objs, TclNewObj)
               /\ last' = Call("New", NULL, requiredSize, "fail", "SEGV", NULL, 0, "")
               /\ halted' = TRUE
               /\ UNCHANGED reps
    /\ UNCHANGED <<arrays, elems>>

\* A value of another type (Tcl_NewObj).
NewPlainObj ==
    /\ ~halted
    /\ Len(objs) < MaxObjs
    /\ objs' = Append(objs, TclNewObj)
    /\ last' = Call("NewPlain", NULL, 0, "none", "TCL_OK", Len(objs) + 1, 0, "")
    /\ UNCHANGED <<reps, arrays, elems, halted>>

\* ------------------------------------------------ Tcl_AbstractListSetProc

\* The operation slots registered so far, over all headers.
ProcsSet ==
    Cardinality({<<r, s>> \in (1..Len(reps)) \X {SlotOf[t] : t \in DOMAIN SlotOf} :
                    reps[r][s] # NullProc})

Tcl_AbstractListSetProc(o, ptype, proc) ==
    /\ ~halted
    /\ o \in LiveObjs
    /\ LET al_internalRep == AbstractListGetInternalRep(o)
       IN IF al_internalRep = NULL
          THEN /\ last' = Call("SetProc", o, <<ptype, proc>>, "none", "TCL_ERROR", NULL, 0, "")
               /\ UNCHANGED reps
          ELSE IF ptype \in DOMAIN SlotOf
          THEN /\ ProcsSet < MaxProcsSet
               /\ reps' = [reps EXCEPT ![al_internalRep][SlotOf[ptype]] = proc]
               /\ last' = Call("SetProc", o, <<ptype, proc>>, "none", "TCL_OK", NULL, 0, "")
          ELSE /\ last' = Call("SetProc", o, <<ptype, proc>>, "none", "TCL_ERROR", NULL, 0, "")
               /\ UNCHANGED reps
    /\ UNCHANGED <<objs, arrays, elems, halted>>

\* ----------------------------------------- Tcl_AbstractListObjGetElements

\* An indirect call through an operation slot (never through NullProc).
CallLength(proc, payload) == ArithSeriesLength(payload)
CallIndex(proc, payload, i) == ArithSeriesIndex(payload, i)
CallDupRep(proc, srcPayload) == ArithSeriesDupRep(srcPayload)

\* The conversion of a Tcl_WideInt to int (lines 282 and 495).
NarrowToInt(n) == ((n + IntMax + 1) % (2 * (IntMax + 1))) - (IntMax + 1)

\* A mismatch path that also stores an empty result in the caller's variables.
WrongTypeStoresEmptyResult(itp) ==
    [status |-> "TCL_ERROR", out |-> [objc |-> 0, objv |-> NULL],
     errorCode |-> IF itp THEN "TCL VALUE UNKNOWN" ELSE ""]

\* Lines 522-530: the value is not an abstract list.
GetElementsWrongType(itp) ==
    [status |-> "TCL_ERROR", out |-> out,
     errorCode |-> IF itp THEN "TCL VALUE UNKNOWN" ELSE ""]

\* No test of ckalloc's result: the NULL array is installed and written to.
NoMemoryUnchecked(itp) ==
    [status |-> "SEGV", out |-> out, elements |-> NULL, halted |-> TRUE,
     errorCode |-> ""]

\* Lines 502-510: ckalloc returned NULL.
GetElementsNoMemory(itp) ==
    [status |-> "TCL_ERROR", out |-> out, elements |-> NULL, halted |-> FALSE,
     errorCode |-> IF itp THEN "TCL MEMORY" ELSE ""]

\* Lines 512-515: objv[i] = indexProc(objPtr, i), each with one reference.
NewElements(rep, objc) ==
    [i \in 1..objc |->
        [refCount |-> 1, frees |-> 0, val |-> CallIndex(rep.indexProc, rep.payload, i - 1)]]

Tcl_AbstractListObjGetElements(itp, o, allocOk) ==
    /\ ~halted
    /\ o \in LiveObjs
    /\ UNCHANGED objs
    /\ IF TclHasInternalRep(o, tclAbstractListType)
       THEN LET r == AbstractListGetInternalRep(o)
                rep == reps[r]
            IN IF rep.lengthProc = NullProc
               THEN \* line 495 calls through a NULL lengthProc
                    /\ last' = Call("GetElements", o, 0, "none", "SEGV", NULL, 0, "")
                    /\ halted' = TRUE
                    /\ UNCHANGED <<reps, arrays, elems>>
               ELSE LET objc == NarrowToInt(CallLength(rep.lengthProc, rep.payload))
                    IN IF objc <= 0
                       THEN /\ last' = [Call("GetElements", o, 0, "none", "TCL_OK", NULL, 0, "")
                                        EXCEPT !.out = [objc |-> objc, objv |-> NULL]]
                            /\ UNCHANGED <<reps, arrays, elems, halted>>
                       ELSE IF rep.elements # NULL
                       THEN /\ last' = [Call("GetElements", o, 0, "none", "TCL_OK", NULL, 0, "")
                                        EXCEPT !.out = [objc |-> objc, objv |-> rep.elements]]
                            /\ UNCHANGED <<reps, arrays, elems, halted>>
                       ELSE IF ~allocOk
                       THEN LET e == GetElementsNoMemory(itp)
                            IN /\ reps' = [reps EXCEPT ![r].elements = e.elements]
                               /\ halted' = e.halted
                               /\ last' = [Call("GetElements", o, 0, "fail",
                                                IF e.halted THEN "SEGV" ELSE e.status,
                                                NULL, 0, e.errorCode)
                                           EXCEPT !.out = e.out]
                               /\ UNCHANGED <<arrays, elems>>
                       ELSE IF rep.indexProc = NullProc
                       THEN \* line 513 calls through a NULL indexProc
                            /\ arrays' = Append(arrays, [alloc |-> TRUE, frees |-> 0,
                                                         items |-> [i \in 1..objc |-> NULL]])
                            /\ reps' = [reps EXCEPT ![r].elements = Len(arrays) + 1]
                            /\ last' = Call("GetElements", o, 0, "ok", "SEGV", NULL, 0, "")
                            /\ halted' = TRUE
                            /\ UNCHANGED elems
                       ELSE /\ elems' = elems \o NewElements(rep, objc)
                            /\ arrays' = Append(arrays, [alloc |-> TRUE, frees |-> 0,
                                                         items |-> [i \in 1..objc |-> Len(elems) + i]])
                            /\ reps' = [reps EXCEPT ![r].elements = Len(arrays) + 1]
                            /\ last' = [Call("GetElements", o, 0, "ok", "TCL_OK", NULL, objc, "")
                                        EXCEPT !.out = [objc |-> objc, objv |-> Len(arrays) + 1]]
                            /\ UNCHANGED halted
       ELSE LET e == GetElementsWrongType(itp)
            IN /\ last' = [Call("GetElements", o, 0, "none", e.status, NULL, 0, e.errorCode)
                           EXCEPT !.out = e.out]
               /\ UNCHANGED <<reps, arrays, elems, halted>>

\* --------------------------------------------- DupAbstractListInternalRep

\* Line 216, *copy = *src: every member of struct AbstractList, the elements
\* pointer among them. The payload words behind the struct are not part of
\* the assignment: they stay what ckalloc returned (garbage).
CopyStruct(srcRep, garbage) == [srcRep EXCEPT !.alloc = TRUE, !.payload = garbage]

\* A duplication that hands the source's cache over to the copy.
SrcLosesCache(srcRep) == [srcRep EXCEPT !.elements = NULL]

\* The source's block after DupAbstractListInternalRep: lines 213-224 read
\* *src and write only to the copy.
SrcAfterDup(srcRep) == srcRep

\* The new block of DupAbstractListInternalRep(srcPtr, copyPtr).
DupAbstractListInternalRep(srcRep, garbage) ==
    LET copyRep == [CopyStruct(srcRep, garbage) EXCEPT !.typeName = srcRep.typeName]
    IN IF srcRep.dupRepProc # NullProc
       THEN [copyRep EXCEPT !.payload = CallDupRep(srcRep.dupRepProc, srcRep.payload)]
       ELSE copyRep

\* The hook invoked first, on a copy that is not yet tagged or filled.
DupStepsHookFirst(srcRep, srcPtr, copyPtr) ==
    (IF srcRep.dupRepProc # NullProc
     THEN <<[do |-> "dupRepProc", src |-> srcPtr, copy |-> copyPtr]>> ELSE << >>)
    \o <<[do |-> "ckalloc", size |-> srcRep.repSize],
         [do |-> "*copy = *src"],
         [do |-> "typePtr = &tclAbstractListType"]>>

\* Lines 213-224 in the order they run: ckalloc(repSize), the struct
\* assignment, the copy's internalRep and typePtr, and then the source's
\* dupRepProc(srcPtr, copyPtr) when that slot is not NULL.
DupSteps(srcRep, srcPtr, copyPtr) ==
    <<[do |-> "ckalloc", size |-> srcRep.repSize],
      [do |-> "*copy = *src"],
      [do |-> "typePtr = &tclAbstractListType"]>>
    \o (IF srcRep.dupRepProc # NullProc
        THEN <<[do |-> "dupRepProc", src |-> srcPtr, copy |-> copyPtr]>> ELSE << >>)

\* A conversion that reports failure to its caller instead of panicking.
SetFromAnyReturnsError == "TCL_ERROR"

\* SetAbstractListFromAny: Tcl_Panic, which does not return.
SetAbstractListFromAny == "PANIC"

\* interp is not used: SetAbstractListFromAny ignores it.
TclAbstractListObjCopy(o, allocOk, garbage) ==
    /\ ~halted
    /\ o \in LiveObjs
    /\ UNCHANGED <<arrays, elems>>
    /\ IF AbstractListGetInternalRep(o) = NULL
       THEN /\ last' = Call("Copy", o, 0, "none", SetAbstractListFromAny, NULL, 0, "")
            /\ halted' = (SetAbstractListFromAny \in {"PANIC", "SEGV"})
            /\ UNCHANGED <<objs, reps>>
       ELSE /\ Len(objs) < MaxObjs
            /\ LET srcRep == reps[AbstractListGetInternalRep(o)]
                   copyPtr == [TclNewObj EXCEPT !.bytes = "NULL"]
               IN IF allocOk
                  THEN /\ garbage \in Payloads(Len(srcRep.payload))
                       /\ reps' = Append([reps EXCEPT ![objs[o].ptr1] = SrcAfterDup(srcRep)],
                                         DupAbstractListInternalRep(srcRep, garbage))
                       /\ objs' = Append(objs, [copyPtr EXCEPT !.ptr1 = Len(reps) + 1,
                                                               !.ptr2 = Len(reps) + 1,
                                                               !.typePtr = tclAbstractListType])
                       /\ last' = [Call("Copy", o, 0, "ok", "TCL_OK", Len(objs) + 1, 0, "")
                                   EXCEPT !.steps = DupSteps(srcRep, o, Len(objs) + 1)]
                       /\ UNCHANGED halted
                  ELSE \* line 216 writes through the NULL block
                       /\ objs' = Append(objs, copyPtr)
                       /\ last' = Call("Copy", o, 0, "fail", "SEGV", NULL, 0, "")
                       /\ halted' = TRUE
                       /\ UNCHANGED reps

\* Calling the conversion entry point of the type directly.
CallSetFromAny(o) ==
    /\ ~halted
    /\ o \in LiveObjs
    /\ last' = Call("SetFromAny", o, 0, "none", SetAbstractListFromAny, NULL, 0, "")
    /\ halted' = (SetAbstractListFromAny \in {"PANIC", "SEGV"})
    /\ UNCHANGED <<objs, reps, arrays, elems>>

\* ----------------------------------------------- Tcl_AbstractListObjIndex

\* An accessor that reports a mismatch as a NULL result instead of panicking.
IndexReturnsNullOnMismatch(o, index) ==
    IF objs[o].typePtr # tclAbstractListType
    THEN [status |-> "TCL_ERROR", ret |-> NULL, calls |-> 0]
    ELSE LET rep == reps[objs[o].ptr1]
         IN IF rep.indexProc = NullProc
            THEN [status |-> "SEGV", ret |-> NULL, calls |-> 0]
            ELSE [status |-> "TCL_OK", ret |-> CallIndex(rep.indexProc, rep.payload, index),
                  calls |-> 1]

\* An accessor that tests the index against the length before it calls
\* indexProc and answers NULL for an index out of range.
IndexWithBoundsCheck(o, index) ==
    IF objs[o].typePtr # tclAbstractListType
    THEN [status |-> "PANIC", ret |-> NULL, calls |-> 0]
    ELSE LET rep == reps[objs[o].ptr1]
         IN IF rep.indexProc = NullProc
            THEN [status |-> "SEGV", ret |-> NULL, calls |-> 0]
            ELSE IF index < 0 \/ index >= ArithSeriesLength(rep.payload)
            THEN [status |-> "TCL_ERROR", ret |-> NULL, calls |-> 0]
            ELSE [status |-> "TCL_OK", ret |-> CallIndex(rep.indexProc, rep.payload, index),
                  calls |-> 1]

\* What the call does: its status, the element's value, the indexProc calls.
AbstractListObjIndex(o, index) ==
    IF objs[o].typePtr # tclAbstractListType
    THEN [status |-> "PANIC", ret |-> NULL, calls |-> 0]
    ELSE LET rep == reps[objs[o].ptr1]
         IN IF rep.indexProc = NullProc
            THEN [status |-> "SEGV", ret |-> NULL, calls |-> 0]
            ELSE [status |-> "TCL_OK", ret |-> CallIndex(rep.indexProc, rep.payload, index),
                  calls |-> 1]

Tcl_AbstractListObjIndex(o, index) ==
    /\ ~halted
    /\ o \in LiveObjs
    /\ LET e == AbstractListObjIndex(o, index)
       IN /\ last' = Call("Index", o, index, "none", e.status, e.ret, e.calls, "")
          /\ halted' = (e.status \in {"PANIC", "SEGV"})
    /\ UNCHANGED <<objs, reps, arrays, elems>>

\* --------------------------------------------- UpdateStringOfAbstractList

\* Tcl_GetStringFromObj of an integer element: its decimal digits.
Digit == <<"0", "1", "2", "3", "4", "5", "6", "7", "8", "9">>
RECURSIVE NatToString(_)
NatToString(n) ==
    IF n < 10 THEN Digit[n + 1] ELSE NatToString(n \div 10) \o Digit[(n % 10) + 1]
ElementString(val) == IF val < 0 THEN "-" \o NatToString(-val) ELSE NatToString(val)

\* A measuring pass that leaves out the byte of the separator.
RECURSIVE MeasureWithoutSeparator(_)
MeasureWithoutSeparator(strs) ==
    IF strs = << >> THEN 0 ELSE Len(Head(strs)) + MeasureWithoutSeparator(Tail(strs))

\* Pass 1 (lines 288-293): length += slen + 1 for every element.
RECURSIVE MeasurePass(_)
MeasurePass(strs) ==
    IF strs = << >> THEN 0 ELSE Len(Head(strs)) + 1 + MeasurePass(Tail(strs))

\* A generating pass that encloses an element holding a space in braces.
RECURSIVE GenerateQuoted(_)
GenerateQuoted(strs) ==
    IF strs = << >> THEN ""
    ELSE (IF \E i \in 1..Len(Head(strs)) : SubSeq(Head(strs), i, i) = " "
          THEN "{" \o Head(strs) \o "}" ELSE Head(strs))
         \o " " \o GenerateQuoted(Tail(strs))

\* Pass 2 (lines 300-306): each element's bytes followed by one space.
RECURSIVE GeneratePass(_)
GeneratePass(strs) ==
    IF strs = << >> THEN "" ELSE Head(strs) \o " " \o GeneratePass(Tail(strs))

\* A string rep that keeps the separator written after the last element.
KeepTrailingSeparator(buffer, length) == [bytes |-> buffer, length |-> length]

\* Lines 307-308: bytes[length-1] = '\0' ends the string before the last
\* separator, and length-1 is recorded as the string's length.
TerminateStringRep(buffer, length) ==
    [bytes |-> IF length > 0 THEN SubSeq(buffer, 1, length - 1) ELSE buffer,
     length |-> length - 1]

\* The string rep the function leaves for elements whose strings are strs:
\* the empty string when there is none (lines 283-286), else the two passes.
StringRepOfElements(strs) ==
    IF Len(strs) <= 0
    THEN [bytes |-> "", length |-> 0]
    ELSE TerminateStringRep(GeneratePass(strs), MeasurePass(strs))

\* A pass that fetches all its elements before it releases any of them.
PassHoldingElements(n) ==
    [k \in 1..(2 * n) |->
        IF k <= n THEN [do |-> "indexProc", i |-> k - 1]
        ELSE [do |-> "Tcl_DecrRefCount", i |-> k - n - 1]]

\* The loop of a pass over i = 0 .. n-1 (lines 288-293 and 300-306): the
\* element is fetched with indexProc(obj, i) and released with
\* Tcl_DecrRefCount before i is incremented.
RECURSIVE PassSteps(_)
PassSteps(n) ==
    IF n = 0 THEN << >>
    ELSE PassSteps(n - 1) \o <<[do |-> "indexProc", i |-> n - 1],
                               [do |-> "Tcl_DecrRefCount", i |-> n - 1]>>

\* The calls of a projection of llen elements in the order they are made:
\* pass 1, Tcl_InitStringRep for the measured length, pass 2.
UpdateStringSteps(llen, length) ==
    PassSteps(llen) \o <<[do |-> "Tcl_InitStringRep", i |-> length]>> \o PassSteps(llen)

\* Tcl_InitStringRep returned NULL at line 299 and line 303 copies into it.
InitStringRepFailed == "SEGV"

\* The updateStringProc of the type, called on an abstract list. Each element
\* is fetched with indexProc and released again in both passes.
UpdateStringOfAbstractList(o, allocOk) ==
    /\ ~halted
    /\ o \in LiveObjs
    /\ TclHasInternalRep(o, tclAbstractListType)
    /\ UNCHANGED <<reps, arrays, elems>>
    /\ LET rep == reps[objs[o].ptr1]
       IN IF rep.lengthProc = NullProc
          THEN \* line 282 calls through a NULL lengthProc
               /\ last' = Call("UpdateString", o, 0, "none", "SEGV", NULL, 0, "")
               /\ halted' = TRUE
               /\ UNCHANGED objs
          ELSE LET llen == NarrowToInt(CallLength(rep.lengthProc, rep.payload))
                   strs == [i \in 1..llen |->
                               ElementString(CallIndex(rep.indexProc, rep.payload, i - 1))]
                   str == StringRepOfElements(strs)
               IN IF llen <= 0
                  THEN /\ objs' = [objs EXCEPT ![o].bytes = str.bytes,
                                               ![o].length = str.length]
                       /\ last' = Call("UpdateString", o, 0, "none", "TCL_OK", NULL, 0, "")
                       /\ UNCHANGED halted
                  ELSE IF rep.indexProc = NullProc
                  THEN \* line 289 calls through a NULL indexProc
                       /\ last' = Call("UpdateString", o, 0, "none", "SEGV", NULL, 0, "")
                       /\ halted' = TRUE
                       /\ UNCHANGED objs
                  ELSE IF ~allocOk
                  THEN /\ last' = Call("UpdateString", o, 0, "fail", InitStringRepFailed,
                                       NULL, llen, "")
                       /\ halted' = (InitStringRepFailed \in {"PANIC", "SEGV"})
                       /\ UNCHANGED objs
                  ELSE /\ objs' = [objs EXCEPT ![o].bytes = str.bytes,
                                               ![o].length = str.length]
                       /\ last' = [Call("UpdateString", o, 0, "ok", "TCL_OK", NULL,
                                        2 * llen, "")
                                   EXCEPT !.steps = UpdateStringSteps(llen, MeasurePass(strs))]
                       /\ UNCHANGED halted

\* ------------ Tcl_AbstractListObjLength, Tcl_AbstractListObjRange, ...Reverse

\* The subtype's sliceProc and reverseProc: the value they return is named
\* by the request it answers.
ArithSeriesRange(o, fromIdx, toIdx) == <<"range", o, fromIdx, toIdx>>
ArithSeriesReverse(o) == <<"reverse", o>>

\* A call through one operation slot of the header AbstractListGetInternalRep
\* yields: the header is NULL for a value of another type, the slot may be
\* NULL, and neither is tested before the call.
Dispatch(o, slot, result) ==
    IF AbstractListGetInternalRep(o) = NULL
    THEN [status |-> "SEGV", ret |-> NULL]
    ELSE IF reps[AbstractListGetInternalRep(o)][slot] = NullProc
    THEN [status |-> "SEGV", ret |-> NULL]
    ELSE [status |-> "TCL_OK", ret |-> result]

Delegate(op, o, arg, slot, result) ==
    /\ ~halted
    /\ o \in LiveObjs
    /\ LET e == Dispatch(o, slot, result)
       IN /\ last' = Call(op, o, arg, "none", e.status, e.ret, 0, "")
          /\ halted' = (e.status \in {"PANIC", "SEGV"})
    /\ UNCHANGED <<objs, reps, arrays, elems>>

Tcl_AbstractListObjLength(o) ==
    Delegate("Length", o, 0, "lengthProc",
             IF AbstractListGetInternalRep(o) = NULL THEN NULL
             ELSE CallLength("lengthProc", reps[AbstractListGetInternalRep(o)].payload))

\* A slice that clamps a negative first index to 0 before it delegates.
RangeWithClampedFrom(o, fromIdx, toIdx) ==
    Delegate("Range", o, <<fromIdx, toIdx>>, "sliceProc",
             ArithSeriesRange(o, IF fromIdx < 0 THEN 0 ELSE fromIdx, toIdx))

Tcl_AbstractListObjRange(o, fromIdx, toIdx) ==
    Delegate("Range", o, <<fromIdx, toIdx>>, "sliceProc", ArithSeriesRange(o, fromIdx, toIdx))

Tcl_AbstractListObjReverse(o) ==
    Delegate("Reverse", o, 0, "reverseProc", ArithSeriesReverse(o))

\* -------------------------------------------- FreeAbstractListInternalRep

\* A block given back by ckfree: nothing points to it any more and what it
\* holds is indeterminate, so it is kept as one fixed record.
FreedRep ==
    [alloc |-> FALSE, version |-> "", repSize |-> 0, typeName |-> "", elements |-> NULL,
     newObjProc |-> NullProc, dupRepProc |-> NullProc, lengthProc |-> NullProc,
     indexProc |-> NullProc, sliceProc |-> NullProc, reverseProc |-> NullProc,
     payload |-> << >>]

\* Tcl_DecrRefCount: one reference less, and TclFreeObj when it was the last.
DecrRefCount(e) ==
    [e EXCEPT !.refCount = @ - 1, !.frees = IF e.refCount <= 1 THEN @ + 1 ELSE @]

\* Lines 173-177 on the array the header points to: the entries below llen
\* that the array holds and that are not NULL lose a reference.
ReleaseElements(items, llen) ==
    [e \in 1..Len(elems) |->
        IF \E i \in 1..Len(items) : i <= llen /\ items[i] = e
        THEN DecrRefCount(elems[e]) ELSE elems[e]]

\* The teardown of a value (TclFreeObj): FreeAbstractListInternalRep, after
\* which the Tcl_Obj itself is gone. Reading an array that was freed already,
\* or beyond its end, is undefined: the process crashes (ubCrash) or goes on
\* with the stale entries.
FreeAbstractListInternalRep(o, ubCrash) ==
    /\ ~halted
    /\ o \in LiveObjs
    /\ TclHasInternalRep(o, tclAbstractListType)
    /\ LET r == objs[o].ptr1
           rep == reps[r]
           freed == /\ objs' = [objs EXCEPT ![o].ptr1 = NULL, ![o].ptr2 = NULL,
                                            ![o].live = FALSE,
                                            ![o].bytes = "NULL", ![o].length = 0]
       IN IF rep.elements = NULL
          THEN /\ freed
               /\ reps' = [reps EXCEPT ![r] = FreedRep]
               /\ last' = Call("Free", o, 0, "none", "TCL_OK", NULL, 0, "")
               /\ UNCHANGED <<arrays, elems, halted>>
          ELSE IF rep.lengthProc = NullProc
          THEN /\ last' = Call("Free", o, 0, "none", "SEGV", NULL, 0, "")
               /\ halted' = TRUE
               /\ UNCHANGED <<objs, reps, arrays, elems>>
          ELSE LET llen == CallLength(rep.lengthProc, rep.payload)
                   arr == arrays[rep.elements]
                   undefined == ~arr.alloc \/ llen > Len(arr.items)
               IN IF undefined /\ ubCrash
                  THEN /\ last' = Call("Free", o, 0, "none", "SEGV", NULL, 0, "")
                       /\ halted' = TRUE
                       /\ UNCHANGED <<objs, reps, arrays, elems>>
                  ELSE /\ freed
                       /\ elems' = ReleaseElements(arr.items, llen)
                       /\ arrays' = [arrays EXCEPT ![rep.elements].alloc = FALSE,
                                                   ![rep.elements].frees = @ + 1]
                       /\ reps' = [reps EXCEPT ![r] = FreedRep]
                       /\ last' = Call("Free", o, 0, "none", "TCL_OK", NULL, 0, "")
                       /\ UNCHANGED halted

\* ------------------------------------------------------------------- Next

\* The ranges a slice is asked for: the first element, the whole list and
\* more, and a range whose first index lies beyond its last.
SliceBounds == {<<0, 0>>, <<-1, MaxLen>>, <<MaxLen, -1>>}

Next ==
    \/ \E t \in TypeNames, s \in 0..MaxPayload, ok \in ckalloc :
         \E p \in Payloads(s) : Tcl_NewAbstractListObj(t, s, p, ok)
    \/ NewPlainObj
    \/ \E o \in LiveObjs, pt \in ProcTypes : Tcl_AbstractListSetProc(o, pt, ProcFor[pt])
    \/ \E itp \in BOOLEAN, o \in LiveObjs, ok \in ckalloc :
         Tcl_AbstractListObjGetElements(itp, o, ok)
    \/ \E o \in LiveObjs, ok \in ckalloc :
         \E g \in UNION {Payloads(s) : s \in 0..MaxPayload} :
            TclAbstractListObjCopy(o, ok, g)
    \/ \E o \in LiveObjs : CallSetFromAny(o)
    \/ \E o \in LiveObjs, i \in -1..MaxLen : Tcl_AbstractListObjIndex(o, i)
    \/ \E o \in LiveObjs, crash \in BOOLEAN : FreeAbstractListInternalRep(o, crash)
    \/ \E o \in LiveObjs, ok \in ckalloc : UpdateStringOfAbstractList(o, ok)
    \/ \E o \in LiveObjs : Tcl_AbstractListObjLength(o)
    \/ \E o \in LiveObjs, ft \in SliceBounds : Tcl_AbstractListObjRange(o, ft[1], ft[2])
    \/ \E o \in LiveObjs : Tcl_AbstractListObjReverse(o)

Spec == Init /\ [][Next]_vars

\* ------------------------------------- the string projection on its own
\* UpdateStringOfAbstractList applied to lists of up to MaxLen elements whose
\* string forms are any of ElementStrings (the empty string, strings with a
\* space and numbers among them).

ElementStrings == {"", " ", "0", "2", "4", "10", "-1", "0 2", "a", "a b"}

\* arg: the element strings in index order; ret: the string rep produced.
UpdateStringOfElements(strs) ==
    /\ last' = Call("UpdateString", NULL, strs, "ok", "TCL_OK",
                    StringRepOfElements(strs), 2 * Len(strs), "")
    /\ UNCHANGED <<objs, reps, arrays, elems, halted>>

\* The lists of at most n element strings.
RECURSIVE ElementLists(_)
ElementLists(n) ==
    IF n = 0 THEN {<< >>}
    ELSE LET shorter == ElementLists(n - 1)
         IN shorter \cup {Append(strs, w) : strs \in shorter, w \in ElementStrings}

StringNext ==
    \E strs \in ElementLists(MaxLen) : UpdateStringOfElements(strs)

StringSpec == Init /\ [][StringNext]_vars

\* ------------------------------------- lengths beyond the range of int
\* Tcl_AbstractListObjGetElements and UpdateStringOfAbstractList on one list
\* with its length and index functions registered and a length anywhere in
\* 0 .. WideMax, the lengths an int cannot hold included.

WideLengthInit ==
    \E n \in 0..WideMax :
        /\ reps = <<[NewAbstractListRep("arithseries", 1, <<n>>)
                        EXCEPT !.lengthProc = ProcFor["TCL_ABSL_LENGTH"],
                               !.indexProc = ProcFor["TCL_ABSL_INDEX"]]>>
        /\ objs = <<StoreAbstractListRep(TclNewObj, 1)>>
        /\ arrays = << >>
        /\ elems = << >>
        /\ last = Call("Init", NULL, 0, "none", "TCL_OK", NULL, 0, "")
        /\ halted = FALSE

WideLengthNext ==
    \/ \E itp \in BOOLEAN, o \in LiveObjs, ok \in ckalloc :
         Tcl_AbstractListObjGetElements(itp, o, ok)
    \/ \E o \in LiveObjs, ok \in ckalloc : UpdateStringOfAbstractList(o, ok)

WideLengthSpec == WideLengthInit /\ [][WideLengthNext]_vars

\* ----------------------------------------------------------------- claims

LiveReps == {r \in 1..Len(reps) : reps[r].alloc}
IsAbstractList(o) == TclHasInternalRep(o, tclAbstractListType)
OpSlots == {"newObjProc", "dupRepProc", "lengthProc", "indexProc", "sliceProc", "reverseProc"}

\* C1: after a duplication produced y, y's element cache is absent whatever
\* the state of the source's cache, and in every state no cache array is
\* referenced by two live headers.
C1_DuplicateCacheAbsentAndUnshared ==
    /\ (last.op = "Copy" /\ last.status = "TCL_OK")
          => reps[objs[last.ret].ptr1].elements = NULL
    /\ \A r1, r2 \in LiveReps :
          (r1 # r2 /\ reps[r1].elements # NULL) => reps[r1].elements # reps[r2].elements

\* C2: destroying a duplicate leaves the source intact: the cache array of
\* every live abstract list is still allocated and each of its elements still
\* holds the cache's reference; no element is released twice and no cache
\* array is freed twice.
C2_DestroyLeavesOtherListsIntact ==
    /\ \A o \in LiveObjs :
          (IsAbstractList(o) /\ reps[objs[o].ptr1].elements # NULL) =>
             LET arr == arrays[reps[objs[o].ptr1].elements]
             IN /\ arr.alloc
                /\ \A i \in 1..Len(arr.items) :
                      arr.items[i] # NULL => elems[arr.items[i]].refCount >= 1
    /\ \A a \in 1..Len(arrays) : arrays[a].frees <= 1
    /\ \A e \in 1..Len(elems) : elems[e].frees <= 1

\* C3: a successful getElements on a list of length N returns count N and an
\* allocated array whose entry i is a live element holding the value of the
\* index function at i, for every i in [0, N).
C3_GetElementsReturnsIndexedValues ==
    (last.op = "GetElements" /\ last.status = "TCL_OK") =>
        LET rep == reps[objs[last.obj].ptr1]
            n == CallLength(rep.lengthProc, rep.payload)
        IN /\ last.out.objc = n
           /\ n > 0 =>
                /\ last.out.objv # NULL
                /\ arrays[last.out.objv].alloc
                /\ Len(arrays[last.out.objv].items) = n
                /\ \A i \in 1..n :
                      LET e == arrays[last.out.objv].items[i]
                      IN /\ e # NULL
                         /\ i <= Len(arrays[last.out.objv].items)
                         /\ elems[e].refCount >= 1
                         /\ elems[e].val = CallIndex(rep.indexProc, rep.payload, i - 1)

\* C4: with or without a duplicate-payload hook, the duplicate y of x has
\* length(y) = length(x) and elementAt(y, i) = elementAt(x, i) for every i in
\* [0, length(x)).
C4_DuplicatePreservesLengthAndElements ==
    (last.op = "Copy" /\ last.status = "TCL_OK") =>
        LET x == reps[objs[last.obj].ptr1]
            y == reps[objs[last.ret].ptr1]
        IN (x.lengthProc # NullProc /\ x.indexProc # NullProc) =>
              /\ CallLength(y.lengthProc, y.payload) = CallLength(x.lengthProc, x.payload)
              /\ \A i \in 0..(CallLength(x.lengthProc, x.payload) - 1) :
                    CallIndex(y.indexProc, y.payload, i) = CallIndex(x.indexProc, x.payload, i)

\* C5: getElements on a value that is not an abstract list returns the
\* recoverable wrong-type error, does not end the process, and leaves every
\* value, header, cache array, element reference count and the caller's
\* count and array variables as they were.
C5_GetElementsWrongTypeIsRecoverable ==
    [][(last'.op = "GetElements" /\ ~IsAbstractList(last'.obj)) =>
          /\ last'.status = "TCL_ERROR"
          /\ last'.errorCode \in {"", "TCL VALUE UNKNOWN"}
          /\ ~halted'
          /\ last'.out = out
          /\ UNCHANGED <<objs, reps, arrays, elems>>]_vars

C5_Witness ==
    /\ last.op = "GetElements"
    /\ ~IsAbstractList(last.obj)
    /\ last.status = "TCL_ERROR"
    /\ last.errorCode = "TCL VALUE UNKNOWN"

\* C6: when the allocation of the element array fails, getElements returns
\* the recoverable out-of-memory error, the process goes on, and the
\* handle's cache stays absent.
C6_GetElementsAllocFailureIsRecoverable ==
    (last.op = "GetElements" /\ last.alloc = "fail") =>
        /\ last.status = "TCL_ERROR"
        /\ last.errorCode \in {"", "TCL MEMORY"}
        /\ ~halted
        /\ reps[objs[last.obj].ptr1].elements = NULL

C6_Witness ==
    /\ last.op = "GetElements"
    /\ last.alloc = "fail"
    /\ last.errorCode = "TCL MEMORY"
    /\ CallLength("ArithSeriesLength", reps[objs[last.obj].ptr1].payload) > 0

\* C7: the single-element accessor on a value that is not an abstract list
\* ends in Tcl_Panic: no index function is invoked, and neither a value nor
\* a recoverable error is returned.
C7_IndexOnOtherTypePanics ==
    (last.op = "Index" /\ ~IsAbstractList(last.obj)) =>
        /\ halted
        /\ last.status = "PANIC"
        /\ last.calls = 0
        /\ last.ret = NULL

C7_Witness ==
    /\ last.op = "Index"
    /\ ~IsAbstractList(last.obj)
    /\ halted

\* C8: the text-to-representation conversion never succeeds: for every value
\* it ends in Tcl_Panic, not in TCL_OK or TCL_ERROR, and it changes no
\* value's type or representation.
C8_SetFromAnyAlwaysPanics ==
    [][last'.op = "SetFromAny" =>
          /\ halted'
          /\ last'.status = "PANIC"
          /\ last'.status \notin {"TCL_OK", "TCL_ERROR"}
          /\ objs' = objs
          /\ reps' = reps]_vars

C8_Witness ==
    /\ last.op = "SetFromAny"
    /\ halted
    /\ \E o \in LiveObjs : IsAbstractList(o)
    /\ ~IsAbstractList(last.obj)

\* C9: create(S) returns a handle tagged as an abstract list with reference
\* count zero, repSize = sizeof(AbstractList) + S, the six operation slots
\* unset, the element cache absent and no string representation.
C9_NewObjIsBlank ==
    (last.op = "New" /\ last.status = "TCL_OK") =>
        LET obj == objs[last.ret]
            rep == reps[obj.ptr1]
        IN /\ obj.live
           /\ obj.typePtr = tclAbstractListType
           /\ obj.refCount = 0
           /\ obj.bytes = "NULL"
           /\ rep.alloc
           /\ rep.repSize = HeaderSize + last.arg
           /\ Len(rep.payload) = last.arg
           /\ \A slot \in OpSlots : rep[slot] = NullProc
           /\ rep.elements = NULL

C9_Witness ==
    /\ last.op = "New"
    /\ last.status = "TCL_OK"
    /\ last.arg > 0
    /\ Len(objs) > 1

\* C10: when the header+payload block cannot be allocated, create returns an
\* allocation error to its caller and produces no handle.
C10_NewObjAllocFailureReturnsError ==
    (last.op = "New" /\ last.alloc = "fail") =>
        /\ last.status = "TCL_ERROR"
        /\ ~halted
        /\ last.ret = NULL

\* The slot each dispatching entry point calls through first.
RequiredSlot ==
    [Length |-> "lengthProc", Index |-> "indexProc", Range |-> "sliceProc",
     Reverse |-> "reverseProc", GetElements |-> "lengthProc",
     UpdateString |-> "lengthProc"]

\* C11: length, elementAt, slice, reverse, getElements or the string
\* projection invoked on an abstract list whose required operation slot is
\* unset ends in the fatal abort (Tcl_Panic with its message): never in a
\* recoverable error, a normal return or any other way of ending.
C11_UnsetSlotPanics ==
    (/\ last.op \in DOMAIN RequiredSlot
     /\ objs[last.obj].live
     /\ IsAbstractList(last.obj)
     /\ reps[objs[last.obj].ptr1][RequiredSlot[last.op]] = NullProc) =>
        /\ halted
        /\ last.status = "PANIC"

\* The strings of strs in order with one space between neighbours.
RECURSIVE JoinWithSpace(_)
JoinWithSpace(strs) ==
    IF Len(strs) = 1 THEN strs[1]
    ELSE JoinWithSpace(SubSeq(strs, 1, Len(strs) - 1)) \o " " \o strs[Len(strs)]

\* C12: for a list of N >= 1 elements the string projection is the elements'
\* strings in index order, separated by exactly one space, with no separator
\* before the first or after the last.
C12_StringIsElementsJoinedBySpace ==
    (last.op = "UpdateString" /\ last.status = "TCL_OK" /\ Len(last.arg) >= 1) =>
        last.ret.bytes = JoinWithSpace(last.arg)

C12_Witness ==
    /\ last.op = "UpdateString"
    /\ last.arg = <<"0", "2">>
    /\ last.ret.bytes = "0 2"

\* The sum over the elements of (string length + 1).
RECURSIVE TotalOf(_)
TotalOf(strs) ==
    IF Len(strs) = 0 THEN 0
    ELSE TotalOf(SubSeq(strs, 1, Len(strs) - 1)) + Len(strs[Len(strs)]) + 1

\* C13 as stated: for every choice of element strings, empty strings
\* included, the length the two passes record is total - 1, and the
\* projection is the empty string if and only if N = 0.
C13_LengthIsTotalMinusOneEmptyIffNoElements ==
    last.op = "UpdateString" =>
        /\ Len(last.arg) >= 1 => last.ret.length = TotalOf(last.arg) - 1
        /\ (last.ret.bytes = "") <=> (Len(last.arg) = 0)

\* C13 amended: for N >= 1 the recorded length is total - 1 and is the length
\* of the projection; for N = 0 the projection is the empty string with
\* recorded length 0; the projection is empty if and only if N = 0 or the
\* list is one element whose string is empty.
C13_LengthIsTotalMinusOneForNonEmptyLists ==
    last.op = "UpdateString" =>
        /\ Len(last.arg) >= 1 => last.ret.length = TotalOf(last.arg) - 1
        /\ Len(last.arg) = 0 => last.ret.length = 0
        /\ last.ret.length = Len(last.ret.bytes)
        /\ (last.ret.bytes = "") <=> (Len(last.arg) = 0 \/ last.arg = <<"">>)

C13_Witness ==
    /\ last.op = "UpdateString"
    /\ last.arg = <<"", "a b">>
    /\ last.ret.length = 4

\* C14: when the buffer of the string projection cannot be allocated, the
\* projection ends with a recoverable error, the process goes on, and the
\* handle's header, cache and payload are as before.
C14_UpdateStringAllocFailureIsRecoverable ==
    (last.op = "UpdateString" /\ last.alloc = "fail") =>
        /\ last.status = "TCL_ERROR"
        /\ ~halted

\* The number of entries of the cache array a header points to.
CacheCount(rep) == Len(arrays[rep.elements].items)

\* C15: once a header's cache is populated, getElements on it returns that
\* array and its count, calls the index function not at all, allocates
\* nothing and changes no reference count; and a populated cache pointer of
\* a header is never written again while the header lives.
C15_GetElementsIdempotent ==
    [][/\ (/\ last'.op = "GetElements"
           /\ IsAbstractList(last'.obj)
           /\ reps[objs[last'.obj].ptr1].elements # NULL) =>
              LET rep == reps[objs[last'.obj].ptr1]
              IN /\ last'.status = "TCL_OK"
                 /\ last'.out.objv = rep.elements
                 /\ last'.out.objc = CacheCount(rep)
                 /\ last'.calls = 0
                 /\ last'.alloc = "none"
                 /\ UNCHANGED <<reps, arrays, elems>>
       /\ \A r \in LiveReps :
             (reps[r].elements # NULL /\ reps'[r].alloc) =>
                 reps'[r].elements = reps[r].elements]_vars

\* The live headers whose cache pointer is the array a.
CachesOf(a) == {r \in LiveReps : reps[r].elements = a}

\* C16: while the process runs, every live header with a populated cache has
\* an allocated cache array of exactly length() entries, none of them absent,
\* owned by that header alone, and every cached element's reference count is
\* the one reference of the cache that holds it.
C16_CacheMatchesLengthAndOwnsOneReference ==
    ~halted =>
        \A r \in LiveReps :
            reps[r].elements # NULL =>
                LET arr == arrays[reps[r].elements]
                IN /\ arr.alloc
                   /\ Len(arr.items) = CallLength(reps[r].lengthProc, reps[r].payload)
                   /\ Cardinality(CachesOf(reps[r].elements)) = 1
                   /\ \A i \in 1..Len(arr.items) :
                         /\ arr.items[i] # NULL
                         /\ elems[arr.items[i]].refCount = 1

\* C17: destroying a list whose header has a cache takes exactly one
\* reference from each element stored in the cache and from no other, frees
\* the cache array once, frees the header block and clears the handle's two
\* representation pointers; without a cache it changes no reference count.
C17_FreeReleasesEachCachedElementOnce ==
    [][last'.op = "Free" =>
          LET o == last'.obj
              r == objs[o].ptr1
              rep == reps[r]
          IN /\ ~halted'
             /\ ~reps'[r].alloc
             /\ objs'[o].ptr1 = NULL /\ objs'[o].ptr2 = NULL
             /\ IF rep.elements = NULL
                THEN elems' = elems /\ arrays' = arrays
                ELSE LET arr == arrays[rep.elements]
                         cached == {arr.items[i] : i \in 1..Len(arr.items)} \ {NULL}
                     IN /\ arr.alloc
                        /\ ~arrays'[rep.elements].alloc
                        /\ arrays'[rep.elements].frees = 1
                        /\ \A e \in 1..Len(elems) :
                              elems'[e].refCount =
                                 IF e \in cached THEN elems[e].refCount - 1
                                 ELSE elems[e].refCount]_vars

\* C18: in every chain of duplications that starts from create(S), each
\* header records repSize = sizeof(AbstractList) + S, its block is obtained
\* with that size, and the duplicate's payload is the S words of its source's
\* payload.
C18_DuplicateKeepsSizeAndPayload ==
    /\ \A r \in LiveReps : reps[r].repSize = HeaderSize + Len(reps[r].payload)
    /\ (last.op = "Copy" /\ last.status = "TCL_OK") =>
          LET x == reps[objs[last.obj].ptr1]
              y == reps[objs[last.ret].ptr1]
          IN /\ y.repSize = x.repSize
             /\ last.steps[1].size = HeaderSize + Len(x.payload)
             /\ y.payload = x.payload

\* C19: TclAbstractListObjCopy on a value that is not an abstract list
\* returns NULL to its caller and creates no value.
C19_CopyOfOtherTypeReturnsNull ==
    (last.op = "Copy" /\ ~IsAbstractList(last.obj)) =>
        /\ ~halted
        /\ last.ret = NULL
        /\ last.status = "TCL_ERROR"

\* C20: a duplication first obtains a block of the source's repSize, then
\* copies the header (the six operation slots, version, repSize and typeName
\* of the copy are the source's), then tags the copy as an abstract list, and
\* only then calls the source's dupRepProc with (source, copy): once when
\* that slot is set, not at all when it is unset.
C20_DuplicateStepOrder ==
    (last.op = "Copy" /\ last.status = "TCL_OK") =>
        LET x == reps[objs[last.obj].ptr1]
            y == reps[objs[last.ret].ptr1]
            hooks == {i \in 1..Len(last.steps) : last.steps[i].do = "dupRepProc"}
        IN /\ Len(last.steps) >= 3
           /\ last.steps[1] = [do |-> "ckalloc", size |-> x.repSize]
           /\ last.steps[2].do = "*copy = *src"
           /\ last.steps[3].do = "typePtr = &tclAbstractListType"
           /\ \A slot \in OpSlots \cup {"version", "repSize", "typeName"} :
                 y[slot] = x[slot]
           /\ IsAbstractList(last.ret)
           /\ IF x.dupRepProc # NullProc
              THEN /\ hooks = {4}
                   /\ last.steps[4] = [do |-> "dupRepProc", src |-> last.obj,
                                       copy |-> last.ret]
              ELSE hooks = {}

C20_Witness ==
    /\ last.op = "Copy"
    /\ last.status = "TCL_OK"
    /\ reps[objs[last.obj].ptr1].dupRepProc # NullProc
    /\ Len(last.steps) = 4

\* C21: getElements on an abstract list whose length is 0 returns TCL_OK
\* with count 0 and no array, allocates nothing, calls the index function
\* not at all, and the handle's cache is absent afterwards.
C21_GetElementsOfEmptyList ==
    (/\ last.op = "GetElements"
     /\ IsAbstractList(last.obj)
     /\ reps[objs[last.obj].ptr1].lengthProc # NullProc
     /\ CallLength("lengthProc", reps[objs[last.obj].ptr1].payload) = 0) =>
        /\ last.status = "TCL_OK"
        /\ last.out = [objc |-> 0, objv |-> NULL]
        /\ last.alloc = "none"
        /\ last.calls = 0
        /\ reps[objs[last.obj].ptr1].elements = NULL

\* The member each kind of operation names.
MemberOfKind ==
    [TCL_ABSL_NEW |-> "newObjProc", TCL_ABSL_DUPREP |-> "dupRepProc",
     TCL_ABSL_LENGTH |-> "lengthProc", TCL_ABSL_INDEX |-> "indexProc",
     TCL_ABSL_SLICE |-> "sliceProc", TCL_ABSL_REVERSE |-> "reverseProc"]

\* C22: Tcl_AbstractListSetProc on an abstract list with a known kind returns
\* TCL_OK and assigns the given function to the member of that kind and to
\* nothing else (no other slot, not the cache, repSize or payload, no other
\* header); with an unknown kind, or on a value that is not an abstract
\* list, it returns TCL_ERROR and changes nothing.
C22_SetProcWritesExactlyOneSlot ==
    [][last'.op = "SetProc" =>
          LET o == last'.obj
              ptype == last'.arg[1]
              proc == last'.arg[2]
          IN /\ UNCHANGED <<objs, arrays, elems, halted>>
             /\ IF IsAbstractList(o) /\ ptype \in DOMAIN MemberOfKind
                THEN /\ last'.status = "TCL_OK"
                     /\ reps' = [reps EXCEPT ![objs[o].ptr1][MemberOfKind[ptype]] = proc]
                ELSE /\ last'.status = "TCL_ERROR"
                     /\ reps' = reps]_vars

C22_Witness ==
    /\ last.op = "SetProc"
    /\ last.status = "TCL_OK"
    /\ last.arg[1] = "TCL_ABSL_INDEX"
    /\ reps[objs[last.obj].ptr1].indexProc = "ArithSeriesIndex"
    /\ reps[objs[last.obj].ptr1].lengthProc = NullProc
    /\ Len(reps) = 2

\* C23: slice and reverse only delegate: the subtype's function receives the
\* handle and the caller's from and to as given (from > to, negative and
\* beyond the length included), what it returns is returned, and no value,
\* header, cache or element is changed by the call.
C23_RangeAndReverseDelegate ==
    [][(last'.op \in {"Range", "Reverse"} /\ last'.status = "TCL_OK") =>
          /\ last'.op = "Range" =>
                last'.ret = <<"range", last'.obj, last'.arg[1], last'.arg[2]>>
          /\ last'.op = "Reverse" => last'.ret = <<"reverse", last'.obj>>
          /\ UNCHANGED <<objs, reps, arrays, elems, halted>>]_vars

C23_Witness ==
    /\ last.op = "Range"
    /\ last.status = "TCL_OK"
    /\ last.arg = <<-1, MaxLen>>
    /\ last.arg[2] >= ArithSeriesLength(reps[objs[last.obj].ptr1].payload)

HasSpace(str) == \E i \in 1..Len(str) : SubSeq(str, i, i) = " "

\* The pieces of str between its spaces, in order.
RECURSIVE SplitOnSpace(_)
SplitOnSpace(str) ==
    IF ~HasSpace(str) THEN <<str>>
    ELSE LET i == CHOOSE k \in 1..Len(str) :
                      /\ SubSeq(str, k, k) = " "
                      /\ \A j \in 1..(k - 1) : SubSeq(str, j, j) # " "
         IN <<SubSeq(str, 1, i - 1)>> \o SplitOnSpace(SubSeq(str, i + 1, Len(str)))

\* C25: the string projection is not injective: the one-element list "0 2"
\* and the two-element list "0", "2" are different lists with the same
\* projection "0 2", and whenever an element's string holds a space,
\* splitting the projection at its spaces gives a list other than the
\* original.
C25_StringProjectionNotInjective ==
    last.op = "UpdateString" =>
        /\ last.arg \in {<<"0 2">>, <<"0", "2">>} =>
              /\ last.ret.bytes = "0 2"
              /\ SplitOnSpace(last.ret.bytes) = <<"0", "2">>
        /\ (\E i \in 1..Len(last.arg) : HasSpace(last.arg[i])) =>
              SplitOnSpace(last.ret.bytes) # last.arg

C25_Witness ==
    /\ last.op = "UpdateString"
    /\ last.arg = <<"0 2">>
    /\ last.ret.bytes = "0 2"
    /\ SplitOnSpace(last.ret.bytes) = <<"0", "2">>

\* C26: a projection of N >= 1 elements fetches element 0 .. N-1 through the
\* index function in pass 1 and again, in the same order, in pass 2 after
\* pass 1 has ended; each fetched element is released before the next is
\* fetched; and the call changes no header, no cache array and no cached
\* element's reference count.
C26_UpdateStringFetchesTwiceAndReleases ==
    [][(last'.op = "UpdateString" /\ last'.status = "TCL_OK"
           /\ CallLength("lengthProc", reps[objs[last'.obj].ptr1].payload) >= 1) =>
          LET n == CallLength("lengthProc", reps[objs[last'.obj].ptr1].payload)
              st == last'.steps
          IN /\ last'.calls = 2 * n
             /\ Len(st) = 4 * n + 1
             /\ st[2 * n + 1].do = "Tcl_InitStringRep"
             /\ \A i \in 0..(n - 1) :
                   \A pass \in {0, 2 * n + 1} :
                      /\ st[pass + 2 * i + 1] = [do |-> "indexProc", i |-> i]
                      /\ st[pass + 2 * i + 2] = [do |-> "Tcl_DecrRefCount", i |-> i]
             /\ UNCHANGED <<reps, arrays, elems, halted>>]_vars

C26_Witness ==
    /\ last.op = "UpdateString"
    /\ last.status = "TCL_OK"
    /\ Len(last.steps) = 9
    /\ reps[objs[last.obj].ptr1].elements # NULL
    /\ objs[last.obj].bytes = "1 3"

\* C27: a duplication leaves its source as it was: the source handle (its
\* reference count included), the source's header (operation table, repSize,
\* typeName, cache pointer, payload), every cache array and every element's
\* reference count are the same after the call as before it.
C27_DuplicateLeavesSourceUnchanged ==
    [][(last'.op = "Copy" /\ IsAbstractList(last'.obj)) =>
          /\ objs'[last'.obj] = objs[last'.obj]
          /\ reps'[objs[last'.obj].ptr1] = reps[objs[last'.obj].ptr1]
          /\ UNCHANGED <<arrays, elems>>]_vars

C27_Witness ==
    /\ last.op = "Copy"
    /\ last.status = "TCL_OK"
    /\ reps[objs[last.obj].ptr1].elements # NULL
    /\ Len(arrays[reps[objs[last.obj].ptr1].elements].items) = MaxLen

\* C28: for every length >= 0 the subtype's length function reports, a
\* successful getElements returns that length as its count with an array of
\* as many entries, and a successful string projection renders that many
\* elements (each fetched once per pass).
C28_CountIsTheReportedLength ==
    LET n == CallLength("lengthProc", reps[1].payload)
    IN /\ (last.op = "GetElements" /\ last.status = "TCL_OK") =>
             /\ last.out.objc = n
             /\ n > 0 => Len(arrays[last.out.objv].items) = n
       /\ (last.op = "UpdateString" /\ last.status = "TCL_OK") =>
             last.calls = 2 * n


====
